---------------------------- MODULE Spec2Model ----------------------------
(***************************************************************************)
(* Model of the image-metadata scanning engine of src/image_metadata.py:   *)
(* scan_directory, the generator _iter_supported_files, _read_image_info   *)
(* and _extract_dpi / _describe_color_depth / _detect_compression.         *)
(*                                                                         *)
(* Paths are sequences of names.  The filesystem and the image library     *)
(* (os.scandir, Path.exists/is_dir, PIL.Image.open) are the environment:   *)
(* a fixed small tree whose variable parts (which directory is unreadable, *)
(* what each image file holds, in which order a directory is listed) are   *)
(* drawn from small sets.                                                  *)
(***************************************************************************)
EXTENDS Integers, Sequences, FiniteSets, TLC

VARIABLES
    root,        \* scan_directory's argument directory (a path)
    recursive,   \* scan_directory's argument recursive
    limit,       \* scan_directory's argument limit (an integer)
    denied,      \* directories whose os.scandir raises PermissionError
    content,     \* what Image.open finds in each regular image file
    pc,          \* control point of the scan (see the actions)
    stack,       \* _iter_supported_files: stack
    current,     \* _iter_supported_files: current, <<>> when none is open
    remaining,   \* entry names os.scandir(current) has not produced yet
    cand,        \* the path the generator yielded last, <<>> when none
    img,         \* the header of the image opened by _read_image_info
    result,      \* scan_directory: result
    error,       \* the exception that left scan_directory, "none" if none
    how,         \* how the for loop ended: "running", "exhausted", "break"
    open_dirs,   \* directory handles held (the with os.scandir block)
    open_files,  \* image file handles held (the with Image.open block)
    log,         \* history: the candidates given to _read_image_info, in order
    enumerated,  \* history: the directories os.scandir opened
    skipped,     \* history: the directories os.scandir refused to open
    runs,        \* number of scan_directory calls started
    prev,        \* the previous completed call: its result and log
    dpi_in,      \* input of the stand-alone _extract_dpi check
    dpi_out      \* its output

vars == <<root, recursive, limit, denied, content, pc, stack, current,
          remaining, cand, img, result, error, how, open_dirs, open_files,
          log, enumerated, skipped, runs, prev, dpi_in, dpi_out>>

(***************************************************************************)
(* Bounds of the model.                                                    *)
(***************************************************************************)
\* MAX_FILES is 100_000 in the source (line 21); it is scaled down so that
\* the four image files of the tree exceed the hard cap.
MAX_FILES == 3
\* limit ranges over MinLimit..MaxLimit: negative, zero, below and above the cap
MaxLimit == 4
\* number of scan_directory calls in the two-scan specification
MaxScans == 2
\* tag values (densities, resolutions) range over 1..MaxTag
MaxTag == 2

\* at most MaxBad image files of the tree are not good ones
MaxBad == 2

MinLimit == 0 - 1

(***************************************************************************)
(* Optional values: None is <<>>, a value v is <<v>>.                      *)
(***************************************************************************)
None == <<>>
Some(v) == <<v>>

Front(s) == SubSeq(s, 1, Len(s) - 1)
Last(s) == s[Len(s)]

(***************************************************************************)
(* The filesystem.                                                         *)
(*   top/ a.png  s/ (b.PNG, d.png, n.txt)  t/ (c.png, lf.png -> out/x.png) *)
(*        l -> out                                                         *)
(*   out/ x.png         (outside the tree)                                 *)
(*   rl -> top          (a symlink to the tree's root)                     *)
(*   rf -> top/a.png    (a symlink to a file)                              *)
(***************************************************************************)
PTop == <<"top">>
PS == <<"top", "s">>
PT == <<"top", "t">>
POut == <<"out">>
FA == <<"top", "a.png">>
FB == <<"top", "s", "b.PNG">>
FD == <<"top", "s", "d.png">>
FN == <<"top", "s", "n.txt">>
FC == <<"top", "t", "c.png">>
FX == <<"out", "x.png">>
LDir == <<"top", "l">>
LFile == <<"top", "t", "lf.png">>
LRoot == <<"rl">>
LRootFile == <<"rf">>
Nowhere == <<"nowhere">>

RealDirs == {PTop, PS, PT, POut}
RealFiles == {FA, FB, FD, FN, FC, FX}
ImageFiles == {FA, FB, FD, FC, FX}
Symlinks == {LDir, LFile, LRoot, LRootFile}

SymlinkTarget(q) ==
    CASE q = LDir -> POut
      [] q = LFile -> FX
      [] q = LRoot -> PTop
      [] q = LRootFile -> FA
      [] OTHER -> q

\* the directory entry at canonical location q, not following a final symlink
NodeKind(q) ==
    IF q \in RealDirs THEN "dir"
    ELSE IF q \in RealFiles THEN "file"
    ELSE IF q \in Symlinks THEN "symlink"
    ELSE "missing"

\* names in the directory at canonical location q
Listing(q) ==
    CASE q = PTop -> {"a.png", "s", "t", "l"}
      [] q = PS -> {"b.PNG", "d.png", "n.txt"}
      [] q = PT -> {"c.png", "lf.png"}
      [] q = POut -> {"x.png"}
      [] OTHER -> {}

\* the canonical location of path p, every symlink on the way followed
RECURSIVE Canon(_)
Canon(p) ==
    IF p = <<>> THEN <<>>
    ELSE SymlinkTarget(Append(Canon(Front(p)), Last(p)))

\* lstat: the kind of p's last component, symlinks before it followed
LKind(p) == NodeKind(Append(Canon(Front(p)), Last(p)))

\* Path.exists() and Path.is_dir() follow symlinks
exists(p) == NodeKind(Canon(p)) # "missing"
is_dir(p) == NodeKind(Canon(p)) = "dir"

\* os.DirEntry.is_symlink / is_dir / is_file of the entry at path p
entry_is_symlink(p) == LKind(p) = "symlink"
entry_is_dir(p, follow_symlinks) ==
    IF follow_symlinks THEN NodeKind(Canon(p)) = "dir" ELSE LKind(p) = "dir"
entry_is_file(p, follow_symlinks) ==
    IF follow_symlinks THEN NodeKind(Canon(p)) = "file" ELSE LKind(p) = "file"

\* Path(name).suffix and str.lower(), for the names of the tree
suffix(name) ==
    CASE name \in {"a.png", "c.png", "d.png", "lf.png", "x.png"} -> ".png"
      [] name = "b.PNG" -> ".PNG"
      [] name = "n.txt" -> ".txt"
      [] OTHER -> ""

lower(ext) == IF ext = ".PNG" THEN ".png" ELSE ext

SUPPORTED_EXTENSIONS ==
    [e \in {".jpg", ".jpeg", ".png", ".bmp", ".gif", ".tif", ".tiff", ".pcx"} |->
        CASE e \in {".jpg", ".jpeg"} -> "JPEG"
          [] e = ".png" -> "PNG"
          [] e = ".bmp" -> "BMP"
          [] e = ".gif" -> "GIF"
          [] e \in {".tif", ".tiff"} -> "TIFF"
          [] e = ".pcx" -> "PCX"]


(***************************************************************************)
(* Image headers, as PIL.Image.open reports them.                          *)
(* A metadata tag of img.info is [tag, v]: absent, a tuple of numbers (of  *)
(* any length), a single number, or a value float() rejects (a string).    *)
(***************************************************************************)
Absent == [tag |-> "absent", v |-> <<>>]
Tuple(s) == [tag |-> "tuple", v |-> s]
Scalar(n) == [tag |-> "scalar", v |-> <<n>>]
Text == [tag |-> "str", v |-> <<>>]

NoInfo ==
    [dpi |-> Absent, jfif_density |-> Absent, jfif_unit |-> Absent,
     resolution |-> Absent, compression |-> Absent, compression_type |-> Absent]

\* float(n), in hundredths; float(x) * 2.54 is then x * 254
float(n) == n * 100
float_times_2_54(n) == n * 254

Returned(x, y) == [exc |-> "none", dpi_x |-> x, dpi_y |-> y]
Raised(e) == [exc |-> e, dpi_x |-> None, dpi_y |-> None]

\* lines 142-144 and 156-158: a pair, or a single number for both axes
PairOrScalar(t) ==
    IF t.tag = "tuple"
    THEN IF Len(t.v) = 0 THEN Raised("IndexError")
         ELSE Returned(Some(float(t.v[1])),
                       Some(float(IF Len(t.v) > 1 THEN t.v[2] ELSE t.v[1])))
    ELSE IF t.tag = "scalar"
    THEN Returned(Some(float(t.v[1])), Some(float(t.v[1])))
    ELSE Raised("ValueError")

\* lines 154-160: the generic resolution tag, else nothing
ResolutionOrNone(info) ==
    IF info.resolution.tag # "absent"
    THEN PairOrScalar(info.resolution)
    ELSE Returned(None, None)

\* lines 146-153: the density tag's unit code is neither 1 nor 2 (absent is
\* read as 0): neither "if" returns, and control reaches line 154
UnknownUnit_stops(info) == Returned(None, None)

UnknownUnit(info) == ResolutionOrNone(info)

_extract_dpi(info) ==
    IF info.dpi.tag # "absent"
    THEN PairOrScalar(info.dpi)
    ELSE IF info.jfif_density.tag # "absent"
    THEN IF info.jfif_density.tag # "tuple" \/ Len(info.jfif_density.v) # 2
         THEN Raised("ValueError")
         ELSE LET x == info.jfif_density.v[1]
                  y == info.jfif_density.v[2]
                  unit == IF info.jfif_unit.tag = "scalar"
                          THEN info.jfif_unit.v[1] ELSE 0
              IN  IF unit = 1 THEN Returned(Some(float(x)), Some(float(y)))
                  ELSE IF unit = 2
                  THEN Returned(Some(float_times_2_54(x)),
                                Some(float_times_2_54(y)))
                  ELSE UnknownUnit(info)
    ELSE ResolutionOrNone(info)

_MODE_DEFAULT_BITS(mode) ==
    CASE mode = "1" -> 1
      [] mode \in {"L", "P", "RGB", "RGBA", "CMYK", "YCbCr", "LAB", "HSV"} -> 8
      [] mode \in {"I", "I;16"} -> 16
      [] mode = "F" -> 32
      [] OTHER -> 8

\* the label "<total_bits> бит (<mode>)", kept as the pair it is formatted from
_describe_color_depth(h) ==
    LET mode == IF h.mode = "" THEN "unknown" ELSE h.mode
        bands == IF h.bands = 0 THEN 1 ELSE h.bands
        bits_per_channel ==
            IF h.bits = None THEN _MODE_DEFAULT_BITS(mode) ELSE h.bits[1]
    IN  <<bits_per_channel * bands, mode>>

_FORMAT_COMPRESSION_HINTS(fmt) ==
    CASE fmt = "JPEG" -> "JPEG (lossy)"
      [] fmt = "PNG" -> "Deflate"
      [] fmt = "GIF" -> "LZW"
      [] fmt = "BMP" -> "None/RLE"
      [] fmt = "TIFF" -> "Depends on tag"
      [] fmt = "PCX" -> "RLE"
      [] OTHER -> "n/a"    \* the source's Cyrillic "n/a" label

_detect_compression(h) ==
    IF h.info.compression.tag # "absent" THEN "tag:compression"
    ELSE IF h.info.compression_type.tag # "absent" THEN "tag:compression_type"
    ELSE _FORMAT_COMPRESSION_HINTS(IF h.format = None THEN "" ELSE h.format[1])

\* what Image.open(path) gives: opens is "ok" or the exception it raises
Header(opens, size, info) ==
    [opens |-> opens, size |-> size, format |-> Some("PNG"), mode |-> "RGB",
     bands |-> 3, bits |-> None, info |-> info]

NoImage == Header("none", <<0, 0>>, NoInfo)

Good == Header("ok", <<2, 1>>, [NoInfo EXCEPT !.dpi = Tuple(<<2, 1>>)])
ZeroHeight == Header("ok", <<2, 0>>, NoInfo)
Corrupt == Header("UnidentifiedImageError", <<0, 0>>, NoInfo)
Unreadable == Header("OSError", <<0, 0>>, NoInfo)
Oversized == Header("DecompressionBombError", <<0, 0>>, NoInfo)
BadTag == Header("ok", <<1, 1>>, [NoInfo EXCEPT !.dpi = Tuple(<<>>)])

ContentKinds == {Good, ZeroHeight, Corrupt, Unreadable, Oversized, BadTag}

\* line 134: except (UnidentifiedImageError, OSError)
Caught(e) == e \in {"UnidentifiedImageError", "OSError"}

\* lines 123-133: the record, or the exception raised while building it
ImageInfo(path, h) ==
    LET d == _extract_dpi(h.info)
    IN  IF d.exc # "none" THEN [exc |-> d.exc]
        ELSE [exc |-> "none",
              path |-> path,
              name |-> Last(path),
              format |-> IF h.format # None THEN h.format[1]
                         ELSE IF lower(suffix(Last(path))) \in DOMAIN SUPPORTED_EXTENSIONS
                         THEN SUPPORTED_EXTENSIONS[lower(suffix(Last(path)))]
                         ELSE "Unknown",
              width_px |-> h.size[1],
              height_px |-> h.size[2],
              dpi_x |-> d.dpi_x,
              dpi_y |-> d.dpi_y,
              color_depth |-> _describe_color_depth(h),
              compression |-> _detect_compression(h)]


(***************************************************************************)
(* scan_directory and the generator _iter_supported_files.                 *)
(***************************************************************************)
\* lines 78-81: the exception the root checks raise, "none" if they pass
RootCheck_existsOnly(p) ==
    IF ~exists(p) THEN "FileNotFoundError" ELSE "none"

RootCheck(p) ==
    IF ~exists(p) THEN "FileNotFoundError"
    ELSE IF ~is_dir(p) THEN "NotADirectoryError"
    ELSE "none"

\* line 83: min(limit or MAX_FILES, MAX_FILES); 0 is falsy
target_limit_uncapped(l) == IF l = 0 THEN MAX_FILES ELSE l

target_limit(l) ==
    LET requested == IF l = 0 THEN MAX_FILES ELSE l
    IN  IF requested < MAX_FILES THEN requested ELSE MAX_FILES

\* line 84
InitialResult_shared == prev.result

InitialResult == <<>>

\* line 90
LimitReached_offByOne(res, target) == Len(res) > target

LimitReached(res, target) == Len(res) >= target

\* lines 103-110: what the loop body does with the entry at path p
Classify_follow(p, rec) ==
    IF entry_is_dir(p, TRUE) /\ rec THEN "push"
    ELSE IF entry_is_file(p, TRUE)
    THEN IF lower(suffix(Last(p))) \in DOMAIN SUPPORTED_EXTENSIONS
         THEN "yield" ELSE "skip"
    ELSE "skip"

Classify(p, rec) ==
    IF entry_is_symlink(p) THEN "skip"
    ELSE IF entry_is_dir(p, FALSE) /\ rec THEN "push"
    ELSE IF entry_is_file(p, FALSE)
    THEN IF lower(suffix(Last(p))) \in DOMAIN SUPPORTED_EXTENSIONS
         THEN "yield" ELSE "skip"
    ELSE "skip"

\* lines 111-112: except PermissionError: continue; the stack the walk goes
\* on with
OnPermissionError_stop(rest) == <<>>

OnPermissionError(rest) == rest

\* line 117: leaving the with block closes the image, on return and on raise
CloseImage_onReturnOnly(files, p, raising) ==
    IF raising THEN files ELSE files \ {p}

CloseImage(files, p, raising) == files \ {p}

NoPrev == [valid |-> FALSE, result |-> <<>>, log |-> <<>>, how |-> "running"]
Pending == [exc |-> "pending", dpi_x |-> None, dpi_y |-> None]

\* the state of a call that has not started
Fresh ==
    /\ stack = <<>>
    /\ current = <<>>
    /\ remaining = {}
    /\ cand = <<>>
    /\ img = NoImage
    /\ result = <<>>
    /\ error = "none"
    /\ how = "running"
    /\ open_dirs = {}
    /\ open_files = {}
    /\ log = <<>>
    /\ enumerated = {}
    /\ skipped = {}

Roots == {PTop, LRoot, Nowhere, FA, LRootFile}
TreeDirs == {PTop, PS, PT}

\* every image file is good, but for at most MaxBad files of the tree
Contents ==
    {c \in [ImageFiles -> ContentKinds] :
        /\ c[FX] = Good
        /\ Cardinality({f \in ImageFiles : c[f] # Good}) <= MaxBad}

Init ==
    /\ root \in Roots
    /\ recursive \in BOOLEAN
    /\ limit \in MinLimit..MaxLimit
    /\ denied \in {{}} \cup {{d} : d \in TreeDirs}
    /\ content \in Contents
    /\ pc = "call"
    /\ Fresh
    /\ runs = 0
    /\ prev = NoPrev
    /\ dpi_in = NoInfo
    /\ dpi_out = Pending

inputs == <<root, recursive, limit, denied, content>>
dpi == <<dpi_in, dpi_out>>

\* lines 77-86: the checks of the root, then the generator is created
Call ==
    /\ pc = "call"
    /\ runs' = runs + 1
    /\ IF RootCheck(root) # "none"
       THEN /\ pc' = "raised"
            /\ error' = RootCheck(root)
            /\ UNCHANGED <<stack, result>>
       ELSE /\ pc' = "walk"
            /\ stack' = <<root>>
            /\ result' = InitialResult
            /\ UNCHANGED error
    /\ UNCHANGED <<inputs, current, remaining, cand, img, how, open_dirs,
                   open_files, log, enumerated, skipped, prev, dpi>>

\* lines 98-101, 111-112: pop a directory and open it
PopDir ==
    /\ pc = "walk"
    /\ stack # <<>>
    /\ LET d == Last(stack)
       IN  IF Canon(d) \in denied
           THEN /\ stack' = OnPermissionError(Front(stack))
                /\ skipped' = skipped \cup {d}
                /\ UNCHANGED <<pc, current, remaining, open_dirs, enumerated>>
           ELSE /\ stack' = Front(stack)
                /\ current' = d
                /\ remaining' = Listing(Canon(d))
                /\ open_dirs' = open_dirs \cup {d}
                /\ enumerated' = enumerated \cup {d}
                /\ pc' = "iter"
                /\ UNCHANGED skipped
    /\ UNCHANGED <<inputs, cand, img, result, error, how, open_files, log,
                   runs, prev, dpi>>

\* lines 102-110: one entry of the open directory, in whatever order
\* os.scandir produces them
IterEntry ==
    /\ pc = "iter"
    /\ \E name \in remaining :
         LET p == Append(current, name)
             what == Classify(p, recursive)
         IN  /\ remaining' = remaining \ {name}
             /\ stack' = IF what = "push" THEN Append(stack, p) ELSE stack
             /\ cand' = IF what = "yield" THEN p ELSE cand
             /\ pc' = IF what = "yield" THEN "extract" ELSE "iter"
    /\ UNCHANGED <<inputs, current, img, result, error, how, open_dirs,
                   open_files, log, enumerated, skipped, runs, prev, dpi>>

\* line 101: the directory is exhausted, the with block closes it
EndDir ==
    /\ pc = "iter"
    /\ remaining = {}
    /\ open_dirs' = open_dirs \ {current}
    /\ current' = <<>>
    /\ pc' = "walk"
    /\ UNCHANGED <<inputs, stack, remaining, cand, img, result, error, how,
                   open_files, log, enumerated, skipped, runs, prev, dpi>>

\* lines 98, 86, 93: the stack is empty, the generator ends, result is returned
Exhausted ==
    /\ pc = "walk"
    /\ stack = <<>>
    /\ pc' = "done"
    /\ how' = "exhausted"
    /\ UNCHANGED <<inputs, stack, current, remaining, cand, img, result,
                   error, open_dirs, open_files, log, enumerated, skipped,
                   runs, prev, dpi>>

\* lines 88-91 after _read_image_info returned: res is the result list.  On
\* break the for statement drops the suspended generator, and its
\* finalisation (GeneratorExit at the yield of line 110) leaves the with
\* block of line 101.
AfterCandidate(res) ==
    /\ result' = res
    /\ IF LimitReached(res, target_limit(limit))
       THEN /\ pc' = "done"
            /\ how' = "break"
            /\ open_dirs' = {}
       ELSE /\ pc' = "iter"
            /\ UNCHANGED <<how, open_dirs>>

\* lines 87, 116-117, 134-135: Image.open on the candidate
OpenImage ==
    /\ pc = "extract"
    /\ log' = Append(log, cand)
    /\ LET h == content[Canon(cand)]
       IN  IF h.opens = "ok"
           THEN /\ img' = h
                /\ open_files' = open_files \cup {cand}
                /\ pc' = "read"
                /\ UNCHANGED <<result, error, how, open_dirs>>
           ELSE IF Caught(h.opens)
           THEN /\ AfterCandidate(result)
                /\ UNCHANGED <<img, open_files, error>>
           ELSE /\ pc' = "raised"
                /\ error' = h.opens
                /\ UNCHANGED <<img, open_files, result, how, open_dirs>>
    /\ UNCHANGED <<inputs, stack, current, remaining, cand, enumerated,
                   skipped, runs, prev, dpi>>

\* lines 118-135, 88-91: the body of the with block, its exit, the append
ReadImage ==
    /\ pc = "read"
    /\ LET r == ImageInfo(cand, img)
       IN  /\ open_files' = CloseImage(open_files, cand, r.exc # "none")
           /\ IF r.exc = "none"
              THEN /\ AfterCandidate(Append(result, r))
                   /\ UNCHANGED error
              ELSE IF Caught(r.exc)
              THEN /\ AfterCandidate(result)
                   /\ UNCHANGED error
              ELSE /\ pc' = "raised"
                   /\ error' = r.exc
                   /\ UNCHANGED <<result, how, open_dirs>>
    /\ img' = NoImage
    /\ UNCHANGED <<inputs, stack, current, remaining, cand, log, enumerated,
                   skipped, runs, prev, dpi>>

\* an exception left scan_directory while the generator was suspended: its
\* traceback keeps the generator alive, and the with block of line 101 is
\* left only when the generator is finalised
Finalize ==
    /\ pc = "raised"
    /\ open_dirs # {}
    /\ open_dirs' = {}
    /\ UNCHANGED <<inputs, pc, stack, current, remaining, cand, img, result,
                   error, how, open_files, log, enumerated, skipped, runs,
                   prev, dpi>>

Next ==
    \/ Call
    \/ PopDir
    \/ IterEntry
    \/ EndDir
    \/ Exhausted
    \/ OpenImage
    \/ ReadImage
    \/ Finalize

Spec == Init /\ [][Next]_vars


(***************************************************************************)
(* Two calls on the same, unchanged tree.                                  *)
(***************************************************************************)
\* scan_directory has returned and is called again with the same arguments
Rescan ==
    /\ pc = "done"
    /\ runs < MaxScans
    /\ prev' = [valid |-> TRUE, result |-> result, log |-> log, how |-> how]
    /\ pc' = "call"
    /\ stack' = <<>>
    /\ current' = <<>>
    /\ remaining' = {}
    /\ cand' = <<>>
    /\ img' = NoImage
    /\ result' = <<>>
    /\ error' = "none"
    /\ how' = "running"
    /\ open_dirs' = {}
    /\ open_files' = {}
    /\ log' = <<>>
    /\ enumerated' = {}
    /\ skipped' = {}
    /\ UNCHANGED <<inputs, runs, dpi>>

NextTwice == Next \/ Rescan

\* the tree is scanned from its root directory, whole or with s unreadable
InitTwice ==
    /\ Init
    /\ root = PTop
    /\ denied \in {{}, {PS}}

SpecTwice == InitTwice /\ [][NextTwice]_vars

(***************************************************************************)
(* _extract_dpi alone, on every combination of the tags it reads.          *)
(***************************************************************************)
TagValues ==
    {Absent} \cup {Scalar(n) : n \in 1..MaxTag}
      \cup {Tuple(<<n>>) : n \in 1..MaxTag}
      \cup {Tuple(<<n, m>>) : n \in 1..MaxTag, m \in 1..MaxTag}

\* values that indexing or float() rejects
BadValues == {Tuple(<<>>), Text}

DensityValues ==
    {Absent} \cup {Tuple(<<n, m>>) : n \in 1..MaxTag, m \in 1..MaxTag}

UnitValues == {Absent} \cup {Scalar(u) : u \in 0..3}

InitDpi ==
    /\ dpi_in \in
         {[NoInfo EXCEPT !.dpi = d, !.jfif_density = j, !.jfif_unit = u,
                         !.resolution = r] :
            d \in {Absent, Scalar(1), Tuple(<<1, 2>>)} \cup BadValues,
            j \in DensityValues,
            u \in UnitValues, r \in TagValues}
    /\ dpi_out = Pending
    /\ pc = "dpi"
    /\ Fresh
    /\ root = PTop
    /\ recursive = TRUE
    /\ limit = 0
    /\ denied = {}
    /\ content = [f \in ImageFiles |-> Good]
    /\ runs = 0
    /\ prev = NoPrev

\* lines 138-160 applied to the tags
ExtractDpi ==
    /\ pc = "dpi"
    /\ dpi_out = Pending
    /\ dpi_out' = _extract_dpi(dpi_in)
    /\ UNCHANGED <<inputs, pc, stack, current, remaining, cand, img, result,
                   error, how, open_dirs, open_files, log, enumerated,
                   skipped, runs, prev, dpi_in>>

NextDpi == ExtractDpi

SpecDpi == InitDpi /\ [][NextDpi]_vars


(***************************************************************************)
(* The claims.                                                             *)
(***************************************************************************)
Range(s) == {s[i] : i \in DOMAIN s}
Min(a, b) == IF a < b THEN a ELSE b
Paths(res) == [i \in DOMAIN res |-> res[i].path]

\* C1 (as stated): for every integer limit, 0 and negative ones included, a
\* call that returns gives at most min(limit, MAX_FILES) records.
C1_AtMostMinLimit ==
    pc = "done" => Len(result) <= Min(limit, MAX_FILES)

\* C1 (amended): the result never holds more than min(limit, MAX_FILES)
\* records when limit >= 1, more than MAX_FILES records when limit = 0 (read
\* as "no limit"), more than one record when limit < 0.
C1_AtMostEffectiveLimit ==
    /\ limit >= 1 => Len(result) <= Min(limit, MAX_FILES)
    /\ limit = 0 => Len(result) <= MAX_FILES
    /\ limit < 0 => Len(result) <= 1

C1_Witness ==
    /\ pc = "done"
    /\ how = "break"
    /\ limit > MAX_FILES
    /\ Len(result) = MAX_FILES

\* C2: no failure while opening or reading a candidate leaves
\* _read_image_info: the only exceptions that end a scan are those of the
\* root checks.
C2_ExtractorNeverRaises ==
    pc = "raised" => error \in {"FileNotFoundError", "NotADirectoryError"}

C4_NoSymlinkEver ==
    /\ \A d \in enumerated : LKind(d) # "symlink"
    /\ \A i \in DOMAIN log : LKind(log[i]) # "symlink"

\* C4 (amended): no symlink found while enumerating the tree is followed or
\* yielded: every candidate is a regular file, every directory walked other
\* than the root argument itself is a real directory, and nothing outside
\* the root's tree is reached.  The root argument is resolved through
\* symlinks.
C4_NoSymlinkInsideTree ==
    /\ \A d \in enumerated \cup skipped \cup Range(stack) :
          /\ d = root \/ LKind(d) = "dir"
          /\ Canon(d) \in TreeDirs
    /\ \A p \in Range(log) \cup (IF cand = <<>> THEN {} ELSE {cand}) :
          /\ LKind(p) = "file"
          /\ Canon(p) # FX

C4_Witness ==
    /\ pc = "done"
    /\ how = "exhausted"
    /\ root = LRoot
    /\ Append(LRoot, "t") \in enumerated
    /\ Len(log) = 4

\* the directories a walk from the root has to visit: depth 2 covers the tree
SubDirs(d) ==
    IF Canon(d) \in denied THEN {}
    ELSE {Append(d, n) : n \in {m \in Listing(Canon(d)) :
                                   LKind(Append(d, m)) = "dir"}}
ReachDirs ==
    LET l1 == {root} \cup SubDirs(root)
        l2 == l1 \cup UNION {SubDirs(d) : d \in l1}
    IN  IF recursive THEN l2 ELSE {root}
SupportedFilesOf(d) ==
    {Append(d, n) : n \in {m \in Listing(Canon(d)) :
        /\ LKind(Append(d, m)) = "file"
        /\ lower(suffix(m)) \in DOMAIN SUPPORTED_EXTENSIONS}}

\* C5: a scan in which a directory refused enumeration and which then ran
\* the walk to its end has not failed, has enumerated every other directory
\* of the tree and has given every supported file of the readable
\* directories to the extractor.
C5_PermissionErrorIsolated ==
    (pc = "done" /\ how = "exhausted" /\ skipped # {}) =>
        /\ error = "none"
        /\ ReachDirs \subseteq enumerated \cup skipped
        /\ skipped = {d \in ReachDirs : Canon(d) \in denied}
        /\ \A d \in ReachDirs \ skipped : SupportedFilesOf(d) \subseteq Range(log)

C5_Witness ==
    /\ pc = "done"
    /\ how = "exhausted"
    /\ skipped = {PS}
    /\ PT \in enumerated
    /\ FC \in Range(log)
    /\ Len(result) = 1

Untouched ==
    /\ enumerated = {}
    /\ skipped = {}
    /\ log = <<>>
    /\ result = <<>>
    /\ open_dirs = {}
    /\ open_files = {}

\* C6: a root that does not exist ends the call with FileNotFoundError, a
\* root that is not a directory with NotADirectoryError, in both cases
\* before any directory is enumerated or any file is opened.
C6_RootChecks ==
    pc # "call" =>
        /\ NodeKind(Canon(root)) = "missing" =>
              pc = "raised" /\ error = "FileNotFoundError" /\ Untouched
        /\ NodeKind(Canon(root)) = "file" =>
              pc = "raised" /\ error = "NotADirectoryError" /\ Untouched

C6_Witness ==
    /\ root = LRootFile
    /\ pc = "raised"
    /\ error = "NotADirectoryError"

UnknownUnitCase ==
    /\ dpi_out # Pending
    /\ dpi_in.dpi = Absent
    /\ dpi_in.jfif_density # Absent
    /\ dpi_in.jfif_unit \notin {Scalar(1), Scalar(2)}

\* C7 (as stated): without a DPI tag and with a density tag whose unit code
\* is absent or neither 1 nor 2, dpi_x and dpi_y are both absent, also when
\* a generic resolution tag is present.
C7_UnknownUnitNoResolution ==
    UnknownUnitCase => dpi_out = Returned(None, None)

\* C7 (amended): in that case the density tag gives no resolution and the
\* generic resolution tag decides: absent, dpi_x and dpi_y are both absent;
\* a number, it is reported for both axes; a pair, it is reported as it is.
C7_UnknownUnitUsesResolutionTag ==
    UnknownUnitCase =>
        LET r == dpi_in.resolution
        IN  /\ r = Absent => dpi_out = Returned(None, None)
            /\ r.tag = "scalar" =>
                  dpi_out = Returned(<<100 * r.v[1]>>, <<100 * r.v[1]>>)
            /\ (r.tag = "tuple" /\ Len(r.v) = 2) =>
                  dpi_out = Returned(<<100 * r.v[1]>>, <<100 * r.v[2]>>)
            /\ (r.tag = "tuple" /\ Len(r.v) = 1) =>
                  dpi_out = Returned(<<100 * r.v[1]>>, <<100 * r.v[1]>>)

C7_Witness ==
    /\ UnknownUnitCase
    /\ dpi_in.jfif_unit = Scalar(3)
    /\ dpi_in.resolution = Tuple(<<1, 2>>)
    /\ dpi_out = Returned(<<100>>, <<200>>)

\* C8 (as stated): between two extractions and after the call returned, no
\* file or directory handle is held.
C8_NoHandleBetweenExtractions ==
    ((pc = "extract" /\ log # <<>>) \/ pc = "done") =>
        open_files = {} /\ open_dirs = {}

\* C8 (amended): no image file handle is held outside a _read_image_info
\* call, whichever way the call ended; the walker holds the handle of the
\* one directory it is enumerating, also while a candidate is extracted, and
\* holds none once that directory is finished or scan_directory has returned.
C8_HandlesScoped ==
    /\ pc # "read" => open_files = {}
    /\ pc = "read" => open_files = {cand}
    /\ pc \in {"iter", "extract", "read"} => open_dirs = {current}
    /\ pc \in {"call", "walk"} => open_dirs = {}
    /\ pc = "raised" => open_dirs \subseteq {current}
    /\ pc = "done" => open_dirs = {}

C8_Witness ==
    /\ pc = "extract"
    /\ Len(log) = 1
    /\ Len(result) = 1
    /\ open_files = {}
    /\ open_dirs = {current}

\* C9 (as stated): two calls on the same tree with the same arguments return
\* the same set of records, whatever the limit and the listing order.
C9_SameRecords ==
    (pc = "done" /\ prev.valid) => Range(result) = Range(prev.result)

\* C9 (amended): two calls on the same tree with the same arguments return
\* the same set of records when neither is cut by the limit, and the same
\* sequence of records when the walker yields the same candidates in the
\* same order in both.
C9_SameRecordsUnlessCut ==
    (pc = "done" /\ prev.valid) =>
        /\ (how = "exhausted" /\ prev.how = "exhausted") =>
              Range(result) = Range(prev.result)
        /\ log = prev.log => result = prev.result

C9_Witness ==
    /\ pc = "done"
    /\ prev.valid
    /\ how = "exhausted"
    /\ prev.how = "exhausted"
    /\ Len(result) = 2
    /\ result # prev.result

\* whether _read_image_info gives a record for the file at path p
Succeeds(p) ==
    LET h == content[Canon(p)]
    IN  h.opens = "ok" /\ h.info.dpi \notin {Tuple(<<>>), Text}

\* C10: with limit >= 1 the result is the successfully extracted candidates
\* in the order the walker yielded them, each once, skipped ones not
\* counted, and the scan stops at the success that fills the limit.
C10_ResultIsCutOfSuccesses ==
    limit >= 1 =>
        LET handled == IF pc = "read" THEN Front(log) ELSE log
            cut == Min(limit, MAX_FILES)
        IN  /\ Paths(result) = SelectSeq(handled, Succeeds)
            /\ Cardinality(Range(Paths(result))) = Len(result)
            /\ Len(result) <= cut
            /\ Len(result) = cut => pc = "done" /\ how = "break"
            /\ pc = "extract" => Len(result) < cut

C10_Witness ==
    /\ limit >= 1
    /\ pc = "done"
    /\ how = "break"
    /\ limit = 2
    /\ Len(result) = 2
    /\ Len(log) = 3
    /\ ~Succeeds(log[1])

=============================================================================
